---- MODULE Spec2Model ----
(***************************************************************************)
(* State-machine model of the crowdfund campaign contract                  *)
(* (contracts/crowdfund/src/lib.rs).  One action per public operation; a   *)
(* call that returns Err or panics leaves ledger storage and token         *)
(* balances untouched (the host reverts it); what a call returns is the    *)
(* value of its ...Result operator in the state it is made in.             *)
(***************************************************************************)
EXTENDS Integers, Sequences, FiniteSets, TLC

\* ---------------------------------------------------------------- bounds
\* Ledger timestamps run over 0..MaxTime; the clock is followed from the moment the
\* campaign is initialized.
MaxTime == 2
\* Pledge[p] is kept within -1..MaxPledge by the guard of Pledge.
MaxPledge == 2
\* Tokens minted to every address before the campaign starts.
InitialBalance == 2
\* Sum of the amounts of admissible contribute calls tracked by `accepted`.
MaxAccepted == 2
\* Longest roadmap, stretch-goal list and reward-tier list that is followed.
MaxItems == 1
MaxTiers == 2
MaxStretchGoals == 2

\* ------------------------------------------------------- program constants
CONTRIBUTION_COOLDOWN == 5
MAX_FEE_BPS == 10000
BPS_DENOMINATOR == 10000

\* ------------------------------------------------------------ input sets
Addr == {"a1", "a2", "a3"}
Contract == "contract"
Holders == Addr \cup {Contract}
Creators == {"a1"}
Tokens == {"tok"}
Goals == {1}
HardCaps == {3}
InitDeadlines == {0}
\* update_deadline arguments: every deadline that can still pass within MaxTime.
Deadlines == 0..(MaxTime - 1)
MinContributions == {-1, 1}
Amounts == {-1, 1, 2}
PledgerAddrs == {"a2", "a3"}
ContributorAddrs == {"a2", "a3"}
\* Who signed an invocation: the creator alone, the other addresses, or everybody.
AuthSets == {{"a1"}, {"a2", "a3"}, Addr}

\* Option<T>: {} is None, {v} is Some(v).
NoneV == {}
Some(v) == {v}
IsSome(o) == o # {}
Get(o) == CHOOSE v \in o : TRUE

PlatformConfigs ==
    { NoneV,
      Some([address |-> "a3", fee_bps |-> 5000]),
      Some([address |-> "a3", fee_bps |-> 10001]) }
Referrals == {NoneV, Some("a2")}
\* contribute amounts that are zero or negative.
NonPositiveAmounts == {-1, 0}
\* Campaigns of the creator-only operations: a goal of 0 is met without funds.
CreatorGoals == {0, 1}
CreatorMinContributions == {1}
\* The `creator` argument of update_metadata and add_reward_tier.
CreatorArgs == {"a1", "a2"}
Titles == {NoneV, Some("title")}
Descriptions == {NoneV, Some("description")}
Socials == {NoneV, Some("socials")}
TierNames == {"tier"}
TierAmounts == {0, 1}
\* Reward tiers of the tier query: two names, two thresholds.
TierLabels == {"bronze", "silver"}
TierMinAmounts == {1, 2}
RoadmapDates == {0, MaxTime + 1}
RoadmapDescriptions == {"", "item"}
Milestones == {1, 2}
\* Arguments of the factory's create_campaign.  The WASM is either this
\* repository's crowdfund contract or a contract whose initialize takes the
\* four arguments the factory passes.
FactoryGoals == {1, 2}
FactoryDeadlines == {0, 1}
WasmHashes == {"crowdfund", "four_argument_initialize"}

VARIABLES
    creator,                \* DataKey::Creator (Option<Address>)
    token,                  \* DataKey::Token
    goal,                   \* DataKey::Goal
    hard_cap,               \* DataKey::HardCap (Option<i128>)
    deadline,               \* DataKey::Deadline
    min_contribution,       \* DataKey::MinContribution
    total_raised,           \* DataKey::TotalRaised
    status,                 \* DataKey::Status
    paused,                 \* DataKey::Paused
    platform_config,        \* DataKey::PlatformConfig (Option<PlatformConfig>)
    contributors,           \* DataKey::Contributors
    contribution,           \* DataKey::Contribution(addr), absent read as 0
    last_contribution_time, \* DataKey::LastContributionTime(addr) (Option<u64>)
    referral_tally,         \* DataKey::ReferralTally(addr), absent read as 0
    pledgers,               \* DataKey::Pledgers, absent read as empty
    pledge,                 \* DataKey::Pledge(addr), absent read as 0
    total_pledged,          \* DataKey::TotalPledged, absent read as 0
    title,                  \* DataKey::Title (Option<String>)
    description,            \* DataKey::Description (Option<String>)
    socials,                \* DataKey::SocialLinks (Option<String>)
    roadmap,                \* DataKey::Roadmap, absent read as empty
    stretch_goals,          \* DataKey::StretchGoals, absent read as empty
    reward_tiers,           \* DataKey::RewardTiers, absent read as empty
    balance,                \* token balances of every holder
    now,                    \* env.ledger().timestamp()
    init_args,              \* arguments of the successful initialize call
    accepted,               \* per address, amounts of its admissible contribute calls
    campaigns,              \* factory DataKey::Campaigns, absent read as empty
    deployed,               \* the contracts the factory has deployed
    created                 \* addresses returned by create_campaign, in order

campaign == <<creator, token, goal, hard_cap, deadline, min_contribution,
              total_raised, status, paused, platform_config>>
ledgers == <<contributors, contribution, last_contribution_time, referral_tally,
             pledgers, pledge, total_pledged>>
presentation == <<title, description, socials, roadmap, stretch_goals, reward_tiers>>
storage == <<campaign, ledgers, presentation>>
factory == <<campaigns, deployed, created>>
vars == <<storage, balance, now, init_args, accepted, factory>>

\* ------------------------------------------------------------- helpers
Initialized == IsSome(creator)

Range(s) == {s[i] : i \in 1..Len(s)}

RECURSIVE SumOver(_, _)
SumOver(f, S) ==
    IF S = {} THEN 0
    ELSE LET x == CHOOSE y \in S : TRUE IN f[x] + SumOver(f, S \ {x})

\* token::Client::transfer(from, to, amount): the calling contract moves its own
\* balance freely; any other holder must have authorized the invocation.
CanTransfer(bal, x, auth) ==
    /\ x.amount >= 0
    /\ bal[x.from] >= x.amount
    /\ (x.from = Contract \/ x.from \in auth)

DoTransfer(bal, x) ==
    IF x.from = x.to THEN bal
    ELSE [bal EXCEPT ![x.from] = @ - x.amount, ![x.to] = @ + x.amount]

RECURSIVE ApplyTransfers(_, _, _)
ApplyTransfers(bal, xs, auth) ==
    IF xs = <<>> THEN [ok |-> TRUE, bal |-> bal]
    ELSE IF ~CanTransfer(bal, Head(xs), auth) THEN [ok |-> FALSE, bal |-> bal]
    ELSE ApplyTransfers(DoTransfer(bal, Head(xs)), Tail(xs), auth)

\* --------------------------------------------------------------- Init
Init ==
    /\ creator = NoneV
    /\ token = "none"
    /\ goal = 0
    /\ hard_cap = NoneV
    /\ deadline = 0
    /\ min_contribution = 0
    /\ total_raised = 0
    /\ status = "None"
    /\ paused = FALSE
    /\ platform_config = NoneV
    /\ contributors = <<>>
    /\ contribution = [a \in Addr |-> 0]
    /\ last_contribution_time = [a \in Addr |-> NoneV]
    /\ referral_tally = [a \in Addr |-> 0]
    /\ pledgers = <<>>
    /\ pledge = [a \in Addr |-> 0]
    /\ total_pledged = 0
    /\ title = NoneV
    /\ description = NoneV
    /\ socials = NoneV
    /\ roadmap = <<>>
    /\ stretch_goals = <<>>
    /\ reward_tiers = <<>>
    /\ balance = [h \in Holders |-> IF h = Contract THEN 0 ELSE InitialBalance]
    /\ now = 0
    /\ init_args = NoneV
    /\ accepted = [a \in Addr |-> 0]
    /\ campaigns = <<>>
    /\ deployed = {}
    /\ created = <<>>

\* --------------------------------------------------------- initialize
\* Mutant: initialize without the has(Creator) guard.
InitializeResult_NoGuard(creator_, cfg, auth) ==
    IF creator_ \notin auth THEN "AuthFailed"
    ELSE IF IsSome(cfg) /\ Get(cfg).fee_bps > MAX_FEE_BPS THEN "FeeTooHigh"
    ELSE "Ok"

InitializeResult(creator_, cfg, auth) ==
    IF Initialized THEN "AlreadyInitialized"
    ELSE IF creator_ \notin auth THEN "AuthFailed"
    ELSE IF IsSome(cfg) /\ Get(cfg).fee_bps > MAX_FEE_BPS THEN "FeeTooHigh"
    ELSE "Ok"

\* Mutant: initialize stores its `hard_cap` argument.
HardCapAfterInitialize_Stored(hard_cap_) == Some(hard_cap_)

\* The value initialize leaves under DataKey::HardCap: the `_hard_cap`
\* argument is unused, so the key keeps whatever it held (nothing).
HardCapAfterInitialize(hard_cap_) == hard_cap

\* The value initialize leaves under DataKey::PlatformConfig: the argument is
\* validated and then dropped.
PlatformConfigAfterInitialize(cfg) == platform_config

Initialize(creator_, token_, goal_, hard_cap_, deadline_, min_, cfg, auth) ==
    LET res == InitializeResult(creator_, cfg, auth) IN
    /\ IF res = "Ok"
       THEN /\ creator' = Some(creator_)
            /\ token' = token_
            /\ goal' = goal_
            /\ deadline' = deadline_
            /\ min_contribution' = min_
            /\ total_raised' = 0
            /\ status' = "Active"
            /\ paused' = FALSE
            /\ contributors' = <<>>
            /\ hard_cap' = HardCapAfterInitialize(hard_cap_)
            /\ platform_config' = PlatformConfigAfterInitialize(cfg)
            /\ init_args' = Some([creator |-> creator_, token |-> token_,
                                  goal |-> goal_, hard_cap |-> hard_cap_,
                                  deadline |-> deadline_, min_contribution |-> min_,
                                  platform_config |-> cfg])
            /\ roadmap' = <<>>
            /\ reward_tiers' = <<>>
            /\ UNCHANGED <<contribution, last_contribution_time, referral_tally,
                           pledgers, pledge, total_pledged,
                           title, description, socials, stretch_goals>>
       ELSE UNCHANGED <<storage, init_args>>
    /\ UNCHANGED <<balance, now, factory, accepted>>

\* ------------------------------------------------------- ledger clock
Tick ==
    /\ Initialized
    /\ now < MaxTime
    /\ now' = now + 1
    /\ UNCHANGED <<storage, balance, init_args, accepted, factory>>

\* --------------------------------------------------------- contribute
RateLimited(contributor) ==
    /\ IsSome(last_contribution_time[contributor])
    /\ now < Get(last_contribution_time[contributor]) + CONTRIBUTION_COOLDOWN

\* hard_cap - total clamp of the requested amount (read only once HardCap is known
\* to be stored).
EffectiveAmount(amount) ==
    LET headroom == Get(hard_cap) - total_raised IN
    IF amount <= headroom THEN amount ELSE headroom

ContributeTransfers(contributor, amount) ==
    << [from |-> contributor, to |-> Contract, amount |-> EffectiveAmount(amount)] >>

\* Mutant: contribute without the minimum test.
ContributeResult_NoMinimumCheck(contributor, amount, auth) ==
    IF RateLimited(contributor) THEN "RateLimitExceeded"
    ELSE IF paused THEN "ContractPaused"
    ELSE IF contributor \notin auth THEN "AuthFailed"
    ELSE IF ~Initialized THEN "MissingValue"
    ELSE IF now > deadline THEN "CampaignEnded"
    ELSE IF ~IsSome(hard_cap) THEN "MissingValue"
    ELSE IF total_raised >= Get(hard_cap) THEN "HardCapExceeded"
    ELSE IF ~ApplyTransfers(balance, ContributeTransfers(contributor, amount), auth).ok
         THEN "TransferFailed"
    ELSE "Ok"

\* Mutant: contribute without the deadline test.
ContributeResult_NoDeadlineCheck(contributor, amount, auth) ==
    IF RateLimited(contributor) THEN "RateLimitExceeded"
    ELSE IF paused THEN "ContractPaused"
    ELSE IF contributor \notin auth THEN "AuthFailed"
    ELSE IF ~Initialized THEN "MissingValue"
    ELSE IF amount < min_contribution THEN "AmountBelowMinimum"
    ELSE IF ~IsSome(hard_cap) THEN "MissingValue"
    ELSE IF total_raised >= Get(hard_cap) THEN "HardCapExceeded"
    ELSE IF ~ApplyTransfers(balance, ContributeTransfers(contributor, amount), auth).ok
         THEN "TransferFailed"
    ELSE "Ok"

ContributeResult(contributor, amount, auth) ==
    IF RateLimited(contributor) THEN "RateLimitExceeded"
    ELSE IF paused THEN "ContractPaused"
    ELSE IF contributor \notin auth THEN "AuthFailed"
    ELSE IF ~Initialized THEN "MissingValue"
    ELSE IF amount < min_contribution THEN "AmountBelowMinimum"
    ELSE IF now > deadline THEN "CampaignEnded"
    ELSE IF ~IsSome(hard_cap) THEN "MissingValue"
    ELSE IF total_raised >= Get(hard_cap) THEN "HardCapExceeded"
    ELSE IF ~ApplyTransfers(balance, ContributeTransfers(contributor, amount), auth).ok
         THEN "TransferFailed"
    ELSE "Ok"

\* What the documentation promises to accept: the guards of contribute with the
\* hard cap that was passed to initialize, on an Active campaign, from a
\* contributor who holds the tokens.
DocumentedEffective(amount) ==
    LET headroom == Get(init_args).hard_cap - total_raised IN
    IF amount <= headroom THEN amount ELSE headroom

Admissible(contributor, amount, auth) ==
    /\ Initialized
    /\ status = "Active"
    /\ contributor \in auth
    /\ ~RateLimited(contributor)
    /\ ~paused
    /\ amount >= min_contribution
    /\ amount > 0
    /\ now <= deadline
    /\ total_raised < Get(init_args).hard_cap
    /\ balance[contributor] >= DocumentedEffective(amount)

ContributeCore(contributor, amount, referral, auth) ==
    LET res == ContributeResult(contributor, amount, auth) IN
    IF res = "Ok"
    THEN LET xs == ContributeTransfers(contributor, amount)
             eff == EffectiveAmount(amount) IN
         /\ balance' = ApplyTransfers(balance, xs, auth).bal
         /\ contribution' = [contribution EXCEPT ![contributor] = @ + eff]
         /\ total_raised' = total_raised + eff
         /\ contributors' = IF contributor \in Range(contributors) THEN contributors
                            ELSE Append(contributors, contributor)
         /\ referral_tally' =
              IF IsSome(referral) /\ Get(referral) # contributor
              THEN [referral_tally EXCEPT ![Get(referral)] = @ + eff]
              ELSE referral_tally
         /\ last_contribution_time' =
              [last_contribution_time EXCEPT ![contributor] = Some(now)]
         /\ UNCHANGED presentation
         /\ UNCHANGED <<creator, token, goal, hard_cap, deadline, min_contribution,
                        status, paused, platform_config, pledgers, pledge,
                        total_pledged, now, factory, init_args>>
    ELSE UNCHANGED <<storage, balance, now, factory, init_args>>

Contribute(contributor, amount, referral, auth) ==
    /\ ContributeCore(contributor, amount, referral, auth)
    /\ UNCHANGED accepted

\* The same call, with the amounts of admissible calls summed per contributor
\* (the expected totals of the property tests).
TrackedContribute(contributor, amount, referral, auth) ==
    /\ Admissible(contributor, amount, auth)
         => SumOver(accepted, Addr) + DocumentedEffective(amount) <= MaxAccepted
    /\ ContributeCore(contributor, amount, referral, auth)
    /\ accepted' = IF Admissible(contributor, amount, auth)
                   THEN [accepted EXCEPT ![contributor] = @ + DocumentedEffective(amount)]
                   ELSE accepted

\* -------------------------------------------------------------- pledge
PledgeResult(pledger, amount, auth) ==
    IF pledger \notin auth THEN "AuthFailed"
    ELSE IF ~Initialized THEN "MissingValue"
    ELSE IF amount < min_contribution THEN "AmountBelowMinimum"
    ELSE IF now > deadline THEN "CampaignEnded"
    ELSE "Ok"

Pledge(pledger, amount, auth) ==
    LET res == PledgeResult(pledger, amount, auth) IN
    /\ res = "Ok" => /\ pledge[pledger] + amount <= MaxPledge
                     /\ pledge[pledger] + amount >= -1
    /\ IF res = "Ok"
       THEN /\ pledge' = [pledge EXCEPT ![pledger] = @ + amount]
            /\ total_pledged' = total_pledged + amount
            /\ pledgers' = IF pledger \in Range(pledgers) THEN pledgers
                           ELSE Append(pledgers, pledger)
            /\ UNCHANGED presentation
            /\ UNCHANGED <<campaign, contributors, contribution,
                           last_contribution_time, referral_tally>>
       ELSE UNCHANGED storage
    /\ UNCHANGED <<balance, now, factory, init_args, accepted>>

\* ----------------------------------------------------- collect_pledges
CollectTransfers ==
    LET owing == SelectSeq(pledgers, LAMBDA p : pledge[p] > 0) IN
    [i \in 1..Len(owing) |->
        [from |-> owing[i], to |-> Contract, amount |-> pledge[owing[i]]]]

CollectPledgesResult(auth) ==
    IF ~Initialized THEN "MissingValue"
    ELSE IF status # "Active" THEN "NotActive"
    ELSE IF now <= deadline THEN "CampaignStillActive"
    ELSE IF total_raised + total_pledged < goal THEN "GoalNotReached"
    ELSE IF ~ApplyTransfers(balance, CollectTransfers, auth).ok THEN "TransferFailed"
    ELSE "Ok"

\* total_raised after a successful collect_pledges.
TotalRaisedAfterCollect == total_raised + total_pledged

\* Mutant: a collect_pledges call that fails at a transfer keeps the transfers
\* made before it.
CollectPledges_NoRollback(auth) ==
    LET res == CollectPledgesResult(auth) IN
    IF res = "Ok"
    THEN /\ balance' = ApplyTransfers(balance, CollectTransfers, auth).bal
         /\ pledge' = [a \in Addr |->
                          IF a \in Range(pledgers) /\ pledge[a] > 0 THEN 0 ELSE pledge[a]]
         /\ total_raised' = TotalRaisedAfterCollect
         /\ total_pledged' = 0
         /\ UNCHANGED presentation
         /\ UNCHANGED <<creator, token, goal, hard_cap, deadline, min_contribution,
                        status, paused, platform_config, contributors, contribution,
                        last_contribution_time, referral_tally, pledgers,
                        now, factory, init_args, accepted>>
    ELSE /\ balance' = IF res = "TransferFailed"
                       THEN ApplyTransfers(balance, CollectTransfers, auth).bal
                       ELSE balance
         /\ UNCHANGED <<storage, now, factory, init_args, accepted>>

CollectPledges(auth) ==
    LET res == CollectPledgesResult(auth) IN
    IF res = "Ok"
    THEN /\ balance' = ApplyTransfers(balance, CollectTransfers, auth).bal
         /\ pledge' = [a \in Addr |->
                          IF a \in Range(pledgers) /\ pledge[a] > 0 THEN 0 ELSE pledge[a]]
         /\ total_raised' = TotalRaisedAfterCollect
         /\ total_pledged' = 0
         /\ UNCHANGED presentation
         /\ UNCHANGED <<creator, token, goal, hard_cap, deadline, min_contribution,
                        status, paused, platform_config, contributors, contribution,
                        last_contribution_time, referral_tally, pledgers,
                        now, factory, init_args, accepted>>
    ELSE UNCHANGED <<storage, balance, now, factory, init_args, accepted>>

\* ------------------------------------------------------------ withdraw
\* i128 checked_div truncates toward zero.
TruncDiv(a, b) == IF a >= 0 THEN a \div b ELSE -((-a) \div b)

PlatformFee(total, fee_bps) == TruncDiv(total * fee_bps, BPS_DENOMINATOR)

\* The disbursements of withdraw, in order: the platform fee when a platform
\* configuration is stored, then the creator payout.
\* Mutant: withdraw pays out the goal instead of the amount raised.
WithdrawTransfers_PaysGoal ==
    << [from |-> Contract, to |-> Get(creator), amount |-> goal] >>

WithdrawTransfers ==
    IF IsSome(platform_config)
    THEN LET config == Get(platform_config)
             fee == PlatformFee(total_raised, config.fee_bps) IN
         << [from |-> Contract, to |-> config.address, amount |-> fee],
            [from |-> Contract, to |-> Get(creator), amount |-> total_raised - fee] >>
    ELSE << [from |-> Contract, to |-> Get(creator), amount |-> total_raised] >>


\* Mutant: withdraw tests the status before the pause flag.
WithdrawResult_StatusFirst(auth) ==
    IF ~Initialized THEN "MissingValue"
    ELSE IF status # "Active" THEN "NotActive"
    ELSE IF paused THEN "ContractPaused"
    ELSE IF Get(creator) \notin auth THEN "AuthFailed"
    ELSE IF now <= deadline THEN "CampaignStillActive"
    ELSE IF total_raised < goal THEN "GoalNotReached"
    ELSE IF ~ApplyTransfers(balance, WithdrawTransfers, auth).ok THEN "TransferFailed"
    ELSE "Ok"

\* Mutant: withdraw without the status check.
WithdrawResult_NoStatusCheck(auth) ==
    IF paused THEN "ContractPaused"
    ELSE IF ~Initialized THEN "MissingValue"
    ELSE IF Get(creator) \notin auth THEN "AuthFailed"
    ELSE IF now <= deadline THEN "CampaignStillActive"
    ELSE IF total_raised < goal THEN "GoalNotReached"
    ELSE IF ~ApplyTransfers(balance, WithdrawTransfers, auth).ok THEN "TransferFailed"
    ELSE "Ok"

\* Mutant: withdraw without the pause test.
WithdrawResult_NoPauseCheck(auth) ==
    IF ~Initialized THEN "MissingValue"
    ELSE IF status # "Active" THEN "NotActive"
    ELSE IF Get(creator) \notin auth THEN "AuthFailed"
    ELSE IF now <= deadline THEN "CampaignStillActive"
    ELSE IF total_raised < goal THEN "GoalNotReached"
    ELSE IF ~ApplyTransfers(balance, WithdrawTransfers, auth).ok THEN "TransferFailed"
    ELSE "Ok"

WithdrawResult(auth) ==
    IF paused THEN "ContractPaused"
    ELSE IF ~Initialized THEN "MissingValue"
    ELSE IF status # "Active" THEN "NotActive"
    ELSE IF Get(creator) \notin auth THEN "AuthFailed"
    ELSE IF now <= deadline THEN "CampaignStillActive"
    ELSE IF total_raised < goal THEN "GoalNotReached"
    ELSE IF ~ApplyTransfers(balance, WithdrawTransfers, auth).ok THEN "TransferFailed"
    ELSE "Ok"

Withdraw(auth) ==
    LET res == WithdrawResult(auth) IN
    IF res = "Ok"
    THEN /\ balance' = ApplyTransfers(balance, WithdrawTransfers, auth).bal
         /\ total_raised' = 0
         /\ status' = "Successful"
         /\ UNCHANGED presentation
         /\ UNCHANGED <<creator, token, goal, hard_cap, deadline, min_contribution,
                        paused, platform_config, ledgers, now, factory, init_args, accepted>>
    ELSE UNCHANGED <<storage, balance, now, factory, init_args, accepted>>

\* ---------------------------------------------------- refund and cancel
\* The per-contributor sweep shared by refund and cancel: every non-zero
\* Contribution goes back to its owner, in list order.
SweepTransfers ==
    LET owed == SelectSeq(contributors, LAMBDA c : contribution[c] > 0) IN
    [i \in 1..Len(owed) |->
        [from |-> Contract, to |-> owed[i], amount |-> contribution[owed[i]]]]

ContributionAfterSweep ==
    [a \in Addr |->
        IF a \in Range(contributors) /\ contribution[a] > 0 THEN 0 ELSE contribution[a]]

\* Mutant: refund opens one second late.
RefundResult_OpensLate(auth) ==
    IF paused THEN "ContractPaused"
    ELSE IF ~Initialized THEN "MissingValue"
    ELSE IF status # "Active" THEN "NotActive"
    ELSE IF now <= deadline + 1 THEN "CampaignStillActive"
    ELSE IF total_raised >= goal THEN "GoalReached"
    ELSE IF ~ApplyTransfers(balance, SweepTransfers, auth).ok THEN "TransferFailed"
    ELSE "Ok"

\* Mutant: refund is refused only when the total exceeds the goal.
RefundResult_StrictGoal(auth) ==
    IF paused THEN "ContractPaused"
    ELSE IF ~Initialized THEN "MissingValue"
    ELSE IF status # "Active" THEN "NotActive"
    ELSE IF now <= deadline THEN "CampaignStillActive"
    ELSE IF total_raised > goal THEN "GoalReached"
    ELSE IF ~ApplyTransfers(balance, SweepTransfers, auth).ok THEN "TransferFailed"
    ELSE "Ok"

RefundResult(auth) ==
    IF paused THEN "ContractPaused"
    ELSE IF ~Initialized THEN "MissingValue"
    ELSE IF status # "Active" THEN "NotActive"
    ELSE IF now <= deadline THEN "CampaignStillActive"
    ELSE IF total_raised >= goal THEN "GoalReached"
    ELSE IF ~ApplyTransfers(balance, SweepTransfers, auth).ok THEN "TransferFailed"
    ELSE "Ok"

Refund(auth) ==
    LET res == RefundResult(auth) IN
    IF res = "Ok"
    THEN /\ balance' = ApplyTransfers(balance, SweepTransfers, auth).bal
         /\ contribution' = ContributionAfterSweep
         /\ total_raised' = 0
         /\ status' = "Refunded"
         /\ UNCHANGED presentation
         /\ UNCHANGED <<creator, token, goal, hard_cap, deadline, min_contribution,
                        paused, platform_config, contributors, last_contribution_time,
                        referral_tally, pledgers, pledge, total_pledged,
                        now, factory, init_args, accepted>>
    ELSE UNCHANGED <<storage, balance, now, factory, init_args, accepted>>


\* Mutant: cancel is refused once the deadline has passed.
CancelResult_BeforeDeadlineOnly(auth) ==
    IF ~Initialized THEN "MissingValue"
    ELSE IF status # "Active" THEN "NotActive"
    ELSE IF Get(creator) \notin auth THEN "AuthFailed"
    ELSE IF now > deadline THEN "CampaignEnded"
    ELSE IF ~ApplyTransfers(balance, SweepTransfers, auth).ok THEN "TransferFailed"
    ELSE "Ok"

\* Mutant: cancel without the status check.
CancelResult_NoStatusCheck(auth) ==
    IF ~Initialized THEN "MissingValue"
    ELSE IF Get(creator) \notin auth THEN "AuthFailed"
    ELSE IF ~ApplyTransfers(balance, SweepTransfers, auth).ok THEN "TransferFailed"
    ELSE "Ok"

CancelResult(auth) ==
    IF ~Initialized THEN "MissingValue"
    ELSE IF status # "Active" THEN "NotActive"
    ELSE IF Get(creator) \notin auth THEN "AuthFailed"
    ELSE IF ~ApplyTransfers(balance, SweepTransfers, auth).ok THEN "TransferFailed"
    ELSE "Ok"

Cancel(auth) ==
    LET res == CancelResult(auth) IN
    IF res = "Ok"
    THEN /\ balance' = ApplyTransfers(balance, SweepTransfers, auth).bal
         /\ contribution' = ContributionAfterSweep
         /\ total_raised' = 0
         /\ status' = "Cancelled"
         /\ UNCHANGED presentation
         /\ UNCHANGED <<creator, token, goal, hard_cap, deadline, min_contribution,
                        paused, platform_config, contributors, last_contribution_time,
                        referral_tally, pledgers, pledge, total_pledged,
                        now, factory, init_args, accepted>>
    ELSE UNCHANGED <<storage, balance, now, factory, init_args, accepted>>

\* ------------------------------------------ set_paused, update_deadline
SetPausedResult(auth) ==
    IF ~Initialized THEN "MissingValue"
    ELSE IF Get(creator) \notin auth THEN "AuthFailed"
    ELSE "Ok"

SetPaused(paused_, auth) ==
    LET res == SetPausedResult(auth) IN
    /\ paused' = IF res = "Ok" THEN paused_ ELSE paused
    /\ UNCHANGED presentation
    /\ UNCHANGED <<creator, token, goal, hard_cap, deadline, min_contribution,
                   total_raised, status, platform_config, ledgers,
                   balance, now, factory, init_args, accepted>>

\* Mutant: update_deadline without the comparison with the current deadline.
UpdateDeadlineResult_NoOrderCheck(new_deadline, auth) ==
    IF ~Initialized THEN "MissingValue"
    ELSE IF status # "Active" THEN "NotActive"
    ELSE IF Get(creator) \notin auth THEN "AuthFailed"
    ELSE "Ok"

UpdateDeadlineResult(new_deadline, auth) ==
    IF ~Initialized THEN "MissingValue"
    ELSE IF status # "Active" THEN "NotActive"
    ELSE IF Get(creator) \notin auth THEN "AuthFailed"
    ELSE IF new_deadline <= deadline THEN "DeadlineNotAfter"
    ELSE "Ok"

UpdateDeadline(new_deadline, auth) ==
    LET res == UpdateDeadlineResult(new_deadline, auth) IN
    /\ deadline' = IF res = "Ok" THEN new_deadline ELSE deadline
    /\ UNCHANGED presentation
    /\ UNCHANGED <<creator, token, goal, hard_cap, min_contribution,
                   total_raised, status, paused, platform_config, ledgers,
                   balance, now, factory, init_args, accepted>>

\* ------------------------------------------------- update_metadata
UpdateMetadataResult(creator_, auth) ==
    IF ~Initialized THEN "MissingValue"
    ELSE IF status # "Active" THEN "NotActive"
    ELSE IF creator_ # Get(creator) THEN "NotAuthorized"
    ELSE IF creator_ \notin auth THEN "AuthFailed"
    ELSE "Ok"

UpdateMetadata(creator_, title_, description_, socials_, auth) ==
    LET res == UpdateMetadataResult(creator_, auth) IN
    /\ title' = IF res = "Ok" /\ IsSome(title_) THEN title_ ELSE title
    /\ description' = IF res = "Ok" /\ IsSome(description_) THEN description_
                      ELSE description
    /\ socials' = IF res = "Ok" /\ IsSome(socials_) THEN socials_ ELSE socials
    /\ UNCHANGED <<campaign, ledgers, roadmap, stretch_goals, reward_tiers,
                   balance, now, factory, init_args, accepted>>

\* ------------------------------------------------- add_roadmap_item
AddRoadmapItemResult(date, description_, auth) ==
    IF ~Initialized THEN "MissingValue"
    ELSE IF Get(creator) \notin auth THEN "AuthFailed"
    ELSE IF date <= now THEN "DateNotInFuture"
    ELSE IF description_ = "" THEN "EmptyDescription"
    ELSE "Ok"

AddRoadmapItem(date, description_, auth) ==
    LET res == AddRoadmapItemResult(date, description_, auth) IN
    /\ res = "Ok" => Len(roadmap) < MaxItems
    /\ roadmap' = IF res = "Ok"
                  THEN Append(roadmap, [date |-> date, description |-> description_])
                  ELSE roadmap
    /\ UNCHANGED <<campaign, ledgers, title, description, socials, stretch_goals,
                   reward_tiers, balance, now, factory, init_args, accepted>>

\* ------------------------------------------------- add_stretch_goal
\* Mutant: add_stretch_goal without creator.require_auth().
AddStretchGoalResult_NoAuth(milestone, auth) ==
    IF ~Initialized THEN "MissingValue"
    ELSE IF milestone <= goal THEN "MilestoneNotAboveGoal"
    ELSE "Ok"

AddStretchGoalResult(milestone, auth) ==
    IF ~Initialized THEN "MissingValue"
    ELSE IF Get(creator) \notin auth THEN "AuthFailed"
    ELSE IF milestone <= goal THEN "MilestoneNotAboveGoal"
    ELSE "Ok"

AddStretchGoal(milestone, auth) ==
    LET res == AddStretchGoalResult(milestone, auth) IN
    /\ res = "Ok" => Len(stretch_goals) < MaxStretchGoals
    /\ stretch_goals' = IF res = "Ok" THEN Append(stretch_goals, milestone)
                        ELSE stretch_goals
    /\ UNCHANGED <<campaign, ledgers, title, description, socials, roadmap,
                   reward_tiers, balance, now, factory, init_args, accepted>>

\* -------------------------------------------------- add_reward_tier
\* Mutant: add_reward_tier without the status test.
AddRewardTierResult_NoStatusCheck(creator_, min_amount, auth) ==
    IF ~Initialized THEN "MissingValue"
    ELSE IF creator_ # Get(creator) THEN "NotAuthorized"
    ELSE IF creator_ \notin auth THEN "AuthFailed"
    ELSE IF min_amount <= 0 THEN "MinAmountNotPositive"
    ELSE "Ok"

AddRewardTierResult(creator_, min_amount, auth) ==
    IF ~Initialized THEN "MissingValue"
    ELSE IF status # "Active" THEN "NotActive"
    ELSE IF creator_ # Get(creator) THEN "NotAuthorized"
    ELSE IF creator_ \notin auth THEN "AuthFailed"
    ELSE IF min_amount <= 0 THEN "MinAmountNotPositive"
    ELSE "Ok"

AddRewardTier(creator_, name, min_amount, auth) ==
    LET res == AddRewardTierResult(creator_, min_amount, auth) IN
    /\ res = "Ok" => Len(reward_tiers) < MaxTiers
    /\ reward_tiers' = IF res = "Ok"
                       THEN Append(reward_tiers, [name |-> name, min_amount |-> min_amount])
                       ELSE reward_tiers
    /\ UNCHANGED <<campaign, ledgers, title, description, socials, roadmap,
                   stretch_goals, balance, now, factory, init_args, accepted>>

\* ------------------------------------------------- factory: create_campaign
\* deployer().with_address(creator, salt) with the constant salt: one address
\* per creator.
CampaignAddress(creator_) == <<"campaign", creator_>>

\* Number of parameters of the deployed contract's initialize.
InitializeParameters(wasm_hash) == IF wasm_hash = "crowdfund" THEN 7 ELSE 4

\* Number of arguments create_campaign passes to initialize.
InitializeArguments == 4

CreateCampaignResult(creator_, wasm_hash, auth) ==
    IF creator_ \notin auth THEN "AuthFailed"
    ELSE IF \E d \in deployed : d.address = CampaignAddress(creator_)
         THEN "ContractAlreadyExists"
    ELSE IF InitializeParameters(wasm_hash) # InitializeArguments THEN "InvokeFailed"
    ELSE "Ok"

\* Mutant: the registry is extended at the front.
CreateCampaign_Prepends(creator_, token_, goal_, deadline_, wasm_hash, auth) ==
    LET res == CreateCampaignResult(creator_, wasm_hash, auth)
        deployed_address == CampaignAddress(creator_) IN
    /\ IF res = "Ok"
       THEN /\ deployed' = deployed \cup
                   {[address |-> deployed_address, wasm_hash |-> wasm_hash,
                     creator |-> creator_, token |-> token_, goal |-> goal_,
                     deadline |-> deadline_]}
            /\ campaigns' = <<deployed_address>> \o campaigns
            /\ created' = Append(created, deployed_address)
       ELSE UNCHANGED factory
    /\ UNCHANGED <<storage, balance, now, init_args, accepted>>

\* A failed deployment or initialize call reverts the whole invocation.
CreateCampaign(creator_, token_, goal_, deadline_, wasm_hash, auth) ==
    LET res == CreateCampaignResult(creator_, wasm_hash, auth)
        deployed_address == CampaignAddress(creator_) IN
    /\ IF res = "Ok"
       THEN /\ deployed' = deployed \cup
                   {[address |-> deployed_address, wasm_hash |-> wasm_hash,
                     creator |-> creator_, token |-> token_, goal |-> goal_,
                     deadline |-> deadline_]}
            /\ campaigns' = Append(campaigns, deployed_address)
            /\ created' = Append(created, deployed_address)
       ELSE UNCHANGED factory
    /\ UNCHANGED <<storage, balance, now, init_args, accepted>>

\* ------------------------------------------------------ views
\* The factory's campaigns() and campaign_count().
Campaigns == campaigns

CampaignCount == Len(campaigns)

\* contributor_count(): the length of the stored Contributors list.
ContributorCount == Len(contributors)

\* The loop of get_user_tier: a qualifying tier replaces the best one so far
\* only when its min_amount is strictly greater.
RECURSIVE BestTier(_, _, _)
BestTier(contribution_, tiers, best) ==
    IF tiers = <<>> THEN best
    ELSE LET tier == Head(tiers)
             is_better == IF IsSome(best)
                          THEN tier.min_amount > Get(best).min_amount
                          ELSE TRUE IN
         BestTier(contribution_, Tail(tiers),
                  IF contribution_ >= tier.min_amount /\ is_better
                  THEN Some(tier) ELSE best)

\* get_user_tier for a Contribution balance and a list of tiers.
UserTierOf(contribution_, tiers) ==
    IF contribution_ <= 0 THEN NoneV
    ELSE IF tiers = <<>> THEN NoneV
    ELSE LET best == BestTier(contribution_, tiers, NoneV) IN
         IF IsSome(best) THEN Some(Get(best).name) ELSE NoneV

GetUserTier(user) == UserTierOf(contribution[user], reward_tiers)

\* get_stats reads DataKey::Contributors and DataKey::Contribution from instance
\* storage, where no operation writes them (initialize, contribute and refund
\* use persistent storage): the entries are absent in every state.
InstanceContributors == NoneV

InstanceContribution == [a \in Addr |-> 0]

\* `raw as u32` for raw <= 10000: the value itself when it is not negative;
\* a negative one wraps to 2^32 + raw, which is written as a pair because it is
\* outside the integers TLC can hold.
AsU32(raw) == IF raw >= 0 THEN raw ELSE <<"2^32 +", raw>>

RECURSIVE Largest(_, _, _)
Largest(contributors_, contribution_, largest) ==
    IF contributors_ = <<>> THEN largest
    ELSE LET amount == contribution_[Head(contributors_)] IN
         Largest(Tail(contributors_), contribution_,
                 IF amount > largest THEN amount ELSE largest)

\* The CampaignStats that get_stats computes from a contributors list and the
\* contribution balances it reads.
StatsOf(contributors_, contribution_) ==
    LET raw == TruncDiv(total_raised * 10000, goal)
        contributor_count == Len(contributors_) IN
    [ total_raised |-> total_raised,
      goal |-> goal,
      progress_bps |-> IF goal > 0
                       THEN (IF raw > 10000 THEN 10000 ELSE AsU32(raw))
                       ELSE 0,
      contributor_count |-> contributor_count,
      average_contribution |-> IF contributor_count = 0 THEN 0
                               ELSE TruncDiv(total_raised, contributor_count),
      largest_contribution |-> IF contributor_count = 0 THEN 0
                               ELSE Largest(contributors_, contribution_, 0) ]

\* get_stats(): the CampaignStats returned, or nothing when the call aborts at
\* the unwrap of an absent entry.
GetStats ==
    IF ~Initialized THEN NoneV
    ELSE IF ~IsSome(InstanceContributors) THEN NoneV
    ELSE Some(StatsOf(Get(InstanceContributors), InstanceContribution))

\* current_milestone(): the first stored stretch goal, in the order of the list,
\* that total_raised is below; 0 when there is none.
CurrentMilestone ==
    LET unmet == SelectSeq(stretch_goals, LAMBDA milestone : total_raised < milestone) IN
    IF unmet = <<>> THEN 0 ELSE Head(unmet)

\* ------------------------------------------------------ specifications
DoInitialize ==
    \E creator_ \in Creators, token_ \in Tokens, goal_ \in Goals,
       hard_cap_ \in HardCaps, deadline_ \in InitDeadlines,
       min_ \in MinContributions, cfg \in PlatformConfigs, auth \in AuthSets :
        Initialize(creator_, token_, goal_, hard_cap_, deadline_, min_, cfg, auth)

DoContribute ==
    \E c \in ContributorAddrs, amount \in Amounts, referral \in Referrals, auth \in AuthSets :
        Contribute(c, amount, referral, auth)

DoTrackedContribute ==
    \E c \in ContributorAddrs, amount \in Amounts, referral \in Referrals, auth \in AuthSets :
        TrackedContribute(c, amount, referral, auth)

DoPledge ==
    \E p \in PledgerAddrs, amount \in Amounts, auth \in AuthSets :
        Pledge(p, amount, auth)

DoCollectPledges == \E auth \in AuthSets : CollectPledges(auth)

DoWithdraw == \E auth \in AuthSets : Withdraw(auth)

DoRefund == \E auth \in AuthSets : Refund(auth)

DoCancel == \E auth \in AuthSets : Cancel(auth)

DoSetPaused == \E paused_ \in BOOLEAN, auth \in AuthSets : SetPaused(paused_, auth)

DoUpdateDeadline ==
    \E new_deadline \in Deadlines, auth \in AuthSets :
        UpdateDeadline(new_deadline, auth)

Next ==
    \/ DoInitialize
    \/ DoContribute
    \/ DoPledge
    \/ DoCollectPledges
    \/ DoWithdraw
    \/ DoRefund
    \/ DoCancel
    \/ DoSetPaused
    \/ DoUpdateDeadline
    \/ Tick

Spec == Init /\ [][Next]_vars

\* Runs made of contribute calls only (no other fund-moving operation).
NextContribute ==
    \/ DoInitialize
    \/ DoTrackedContribute
    \/ DoSetPaused
    \/ DoUpdateDeadline
    \/ Tick

SpecContribute == Init /\ [][NextContribute]_vars

\* Runs of contribute calls followed by a settlement of the contributions
\* (refund after the deadline, or cancel at any time).
NextTracked ==
    \/ DoInitialize
    \/ DoTrackedContribute
    \/ DoRefund
    \/ DoCancel
    \/ DoSetPaused
    \/ DoUpdateDeadline
    \/ Tick

SpecTracked == Init /\ [][NextTracked]_vars

\* Runs of the creator-only operations, on campaigns without a platform
\* config whose goal may be 0 (so that withdraw can succeed without any funds
\* having been raised).
DoInitializeAnyGoal ==
    \E creator_ \in Creators, token_ \in Tokens, goal_ \in CreatorGoals,
       hard_cap_ \in HardCaps, deadline_ \in InitDeadlines,
       min_ \in CreatorMinContributions, auth \in AuthSets :
        Initialize(creator_, token_, goal_, hard_cap_, deadline_, min_, NoneV, auth)

DoUpdateMetadata ==
    \E creator_ \in CreatorArgs, title_ \in Titles, description_ \in Descriptions,
       socials_ \in Socials, auth \in AuthSets :
        UpdateMetadata(creator_, title_, description_, socials_, auth)

DoAddRoadmapItem ==
    \E date \in RoadmapDates, description_ \in RoadmapDescriptions, auth \in AuthSets :
        AddRoadmapItem(date, description_, auth)

DoAddStretchGoal ==
    \E milestone \in Milestones, auth \in AuthSets : AddStretchGoal(milestone, auth)

\* add_stretch_goal in the runs of the creator-only operations, which stop at
\* MaxItems stretch goals.
DoAddFirstStretchGoals ==
    \E milestone \in Milestones, auth \in AuthSets :
        /\ Len(stretch_goals) < MaxItems
        /\ AddStretchGoal(milestone, auth)

DoAddRewardTier ==
    \E creator_ \in CreatorArgs, name \in TierNames, min_amount \in TierAmounts,
       auth \in AuthSets :
        AddRewardTier(creator_, name, min_amount, auth)

NextCreator ==
    \/ DoInitializeAnyGoal
    \/ DoContribute
    \/ DoWithdraw
    \/ DoCancel
    \/ DoSetPaused
    \/ DoUpdateDeadline
    \/ DoUpdateMetadata
    \/ DoAddRoadmapItem
    \/ DoAddFirstStretchGoals
    \/ DoAddRewardTier
    \/ Tick

SpecCreator == Init /\ [][NextCreator]_vars

\* Runs of contribute calls on a campaign whose creator adds reward tiers.
DoAddNamedTier ==
    \E creator_ \in Creators, name \in TierLabels, min_amount \in TierMinAmounts,
       auth \in AuthSets :
        AddRewardTier(creator_, name, min_amount, auth)

NextTier ==
    \/ DoInitialize
    \/ DoTrackedContribute
    \/ DoAddNamedTier
    \/ Tick

SpecTier == Init /\ [][NextTier]_vars

\* Runs in which the creator adds stretch goals while pledges are made and
\* collected (the only way total_raised grows).
NextMilestone ==
    \/ DoInitializeAnyGoal
    \/ DoPledge
    \/ DoCollectPledges
    \/ DoAddStretchGoal
    \/ Tick

SpecMilestone == Init /\ [][NextMilestone]_vars

\* Runs in which the creator edits the campaign before and after it is settled
\* by withdraw, refund or cancel.
NextSettled ==
    \/ DoInitializeAnyGoal
    \/ DoWithdraw
    \/ DoRefund
    \/ DoCancel
    \/ DoUpdateMetadata
    \/ DoUpdateDeadline
    \/ DoAddRewardTier
    \/ Tick

SpecSettled == Init /\ [][NextSettled]_vars

\* Runs of the factory contract.
DoCreateCampaign ==
    \E creator_ \in Addr, token_ \in Tokens, goal_ \in FactoryGoals,
       deadline_ \in FactoryDeadlines, wasm_hash \in WasmHashes, auth \in AuthSets :
        CreateCampaign(creator_, token_, goal_, deadline_, wasm_hash, auth)

NextFactory == DoCreateCampaign

SpecFactory == Init /\ [][NextFactory]_vars

\* =====================================================================
\* Claims
\* =====================================================================
Terminal == {"Successful", "Refunded", "Cancelled"}

\* C1: whenever status is Active, total_raised equals the sum of Contribution[a]
\* over the addresses of the Contributors list.
C1_TotalEqualsContributions ==
    status = "Active" => total_raised = SumOver(contribution, Range(contributors))

\* C2: over runs made of contribute calls only, total_raised equals the sum of all
\* Contribution balances and each contributor's balance equals the sum of the
\* amounts of its own accepted contributions (the expected totals of the
\* property tests).
C2_Conservation ==
    Initialized =>
        /\ total_raised = SumOver(contribution, Addr)
        /\ \A a \in Addr : contribution[a] = accepted[a]

\* C3: whenever status is Active, the contract's token balance equals
\* total_raised (uncollected pledges are neither in custody nor counted).
C3_CustodyEqualsTotalRaised ==
    status = "Active" => balance[Contract] = total_raised

\* C4: the status only ever moves from Active to Successful (by a successful
\* withdraw), to Refunded (by a successful refund) or to Cancelled (by a
\* successful cancel); a terminal status never changes.  (Before initialize
\* there is no status; initialize creates it as Active.)
C4_StatusTransitions ==
    [][ (status # "None" /\ status' # status) =>
          /\ status = "Active"
          /\ \/ status' = "Successful" /\ \E auth \in AuthSets : Withdraw(auth)
             \/ status' = "Refunded" /\ \E auth \in AuthSets : Refund(auth)
             \/ status' = "Cancelled" /\ \E auth \in AuthSets : Cancel(auth) ]_vars

C4_Witness == status = "Refunded"

\* C5 as stated: after a successful withdraw every later withdraw fails as
\* 'campaign is not active', and likewise refund after a successful refund.
C5_RepeatIsNotActive ==
    /\ status = "Successful" =>
          \A auth \in AuthSets : WithdrawResult(auth) = "NotActive"
    /\ status = "Refunded" =>
          \A auth \in AuthSets : RefundResult(auth) = "NotActive"

SettlementSucceeds ==
    \/ \E auth \in AuthSets : WithdrawResult(auth) = "Ok" /\ Withdraw(auth)
    \/ \E auth \in AuthSets : RefundResult(auth) = "Ok" /\ Refund(auth)
    \/ \E auth \in AuthSets : CancelResult(auth) = "Ok" /\ Cancel(auth)

\* C5 amended: after a successful withdraw every later withdraw fails, as
\* ContractPaused while the contract is paused and as 'campaign is not active'
\* otherwise, and likewise refund after a successful refund; once the campaign
\* is settled no tokens move; a settlement succeeds only on an Active campaign
\* and ends it, so at most one of withdraw, refund and cancel ever succeeds.
C5_SettlementIdempotent ==
    /\ [](/\ status = "Successful" =>
               \A auth \in AuthSets :
                   WithdrawResult(auth) = IF paused THEN "ContractPaused" ELSE "NotActive"
          /\ status = "Refunded" =>
               \A auth \in AuthSets :
                   RefundResult(auth) = IF paused THEN "ContractPaused" ELSE "NotActive"
          /\ status \in Terminal =>
               \A auth \in AuthSets :
                   /\ WithdrawResult(auth) # "Ok"
                   /\ RefundResult(auth) # "Ok"
                   /\ CancelResult(auth) # "Ok")
    /\ [][ /\ status \in Terminal => balance' = balance /\ status' = status
           /\ SettlementSucceeds => status = "Active" /\ status' \in Terminal ]_vars

C5_Witness ==
    /\ status = "Successful"
    /\ balance[Get(creator)] > InitialBalance
    /\ WithdrawResult(Addr) = "NotActive"

\* C6: once initialize has succeeded every initialize call returns
\* AlreadyInitialized, and what the first initialize stored is never written a
\* second time: the fields only initialize writes keep their values.
C6_InitializeOnce ==
    /\ [](Initialized =>
            \A c \in Addr, cfg \in PlatformConfigs, auth \in AuthSets :
                InitializeResult(c, cfg, auth) = "AlreadyInitialized")
    /\ [][ Initialized =>
             UNCHANGED <<creator, token, goal, min_contribution, hard_cap,
                         platform_config, init_args>> ]_vars

C6_Witness ==
    /\ Initialized
    /\ total_raised > 0
    /\ InitializeResult("a1", NoneV, Addr) = "AlreadyInitialized"

\* C7: a successful initialize stores exactly its arguments: goal, hard_cap,
\* deadline, min_contribution, token and platform config read back as passed,
\* total_raised is 0, status is Active and paused is false.
C7_InitializeStoresArguments ==
    [][ \A c \in Creators, t \in Tokens, g \in Goals, h \in HardCaps,
           d \in InitDeadlines, m \in MinContributions,
           cfg \in PlatformConfigs, auth \in AuthSets :
            (InitializeResult(c, cfg, auth) = "Ok"
               /\ Initialize(c, t, g, h, d, m, cfg, auth)) =>
                /\ creator' = Some(c)
                /\ token' = t
                /\ goal' = g
                /\ hard_cap' = Some(h)
                /\ deadline' = d
                /\ min_contribution' = m
                /\ platform_config' = cfg
                /\ total_raised' = 0
                /\ status' = "Active"
                /\ paused' = FALSE ]_vars

\* C8: a contribute call that is authorized, not rate-limited, not paused, at
\* least min_contribution, made by the deadline and below the hard cap succeeds,
\* moves exactly effective = min(amount, hard_cap - total_raised) tokens from the
\* contributor to the contract and adds exactly that to Contribution[c] and to
\* total_raised.
C8_ContributeEffective ==
    /\ [](\A c \in ContributorAddrs, amount \in Amounts, auth \in AuthSets :
            Admissible(c, amount, auth) => ContributeResult(c, amount, auth) = "Ok")
    /\ [][ \A c \in ContributorAddrs, amount \in Amounts,
              referral \in Referrals, auth \in AuthSets :
               (Admissible(c, amount, auth) /\ Contribute(c, amount, referral, auth)) =>
                   LET eff == DocumentedEffective(amount) IN
                   /\ balance' = [balance EXCEPT ![c] = @ - eff, ![Contract] = @ + eff]
                   /\ contribution' = [contribution EXCEPT ![c] = @ + eff]
                   /\ total_raised' = total_raised + eff ]_vars

\* C9: a successful withdraw on a campaign initialized without a platform config
\* moves exactly the pre-call total_raised from the contract to the creator in a
\* single transfer, resets total_raised to 0 and sets status to Successful.
C9_WithdrawPaysTotal ==
    [][ \A auth \in AuthSets :
          (/\ WithdrawResult(auth) = "Ok"
           /\ Withdraw(auth)
           /\ Get(init_args).platform_config = NoneV) =>
              /\ Len(WithdrawTransfers) = 1
              /\ balance' = [balance EXCEPT ![Contract] = @ - total_raised,
                                            ![Get(creator)] = @ + total_raised]
              /\ total_raised' = 0
              /\ status' = "Successful" ]_vars

C9_Witness ==
    /\ status = "Successful"
    /\ Get(init_args).platform_config = NoneV
    /\ total_raised = 0
    /\ balance[Get(creator)] = InitialBalance + 2
    /\ balance[Contract] = 0

\* C10: when a platform config {address, fee_bps} was passed to initialize, a
\* successful withdraw pays fee = floor(total_raised * fee_bps / 10000) to the
\* platform address and total_raised - fee to the creator, with
\* 0 <= fee <= total_raised.
C10_WithdrawSplitsFee ==
    [][ \A auth \in AuthSets :
          (/\ WithdrawResult(auth) = "Ok"
           /\ Withdraw(auth)
           /\ IsSome(Get(init_args).platform_config)) =>
              LET config == Get(Get(init_args).platform_config)
                  fee == (total_raised * config.fee_bps) \div BPS_DENOMINATOR
                  paid == [balance EXCEPT ![Contract] = @ - fee,
                                          ![config.address] = @ + fee] IN
              /\ 0 <= fee /\ fee <= total_raised
              /\ balance' = [paid EXCEPT ![Contract] = @ - (total_raised - fee),
                                         ![Get(creator)] = @ + (total_raised - fee)] ]_vars

\* C11: a successful refund() pays back to every contributor exactly what they
\* had contributed (here: the amounts of their contribute calls that the
\* documentation accepts, which C2 says is their Contribution balance), and
\* leaves every Contribution balance at 0, total_raised at 0 and status
\* Refunded.
C11_RefundReturnsContributions ==
    [][ (status = "Active" /\ status' = "Refunded")
          => /\ \A a \in Addr :
                  accepted[a] > 0 => balance'[a] = balance[a] + accepted[a]
             /\ \A a \in Addr : contribution'[a] = 0
             /\ total_raised' = 0 ]_vars

\* C12: on an Active, unpaused campaign whose deadline has passed, a withdraw
\* authorized by the creator succeeds iff total_raised >= goal and otherwise
\* fails with GoalNotReached, and refund succeeds iff total_raised < goal and
\* otherwise fails with GoalReached: exactly one of the two is enabled.
C12_WithdrawXorRefund ==
    (Initialized /\ status = "Active" /\ ~paused /\ now > deadline)
      => /\ \A auth \in AuthSets :
              Get(creator) \in auth
                => WithdrawResult(auth) =
                     (IF total_raised >= goal THEN "Ok" ELSE "GoalNotReached")
         /\ \A auth \in AuthSets :
              RefundResult(auth) =
                (IF total_raised < goal THEN "Ok" ELSE "GoalReached")
         /\ \A auth \in AuthSets :
              Get(creator) \in auth
                => ((WithdrawResult(auth) = "Ok") # (RefundResult(auth) = "Ok"))

C12_Witness ==
    /\ Initialized /\ status = "Active" /\ ~paused /\ now > deadline
    /\ total_raised = goal
    /\ WithdrawResult(Addr) = "Ok"
    /\ RefundResult(Addr) = "GoalReached"

\* C13: on an Active, unpaused campaign with now <= deadline, withdraw (by the
\* creator), refund and collect_pledges fail with CampaignStillActive, while a
\* contribute call the documentation accepts is still accepted, at
\* now = deadline included.
C13_WindowsDisjoint ==
    (Initialized /\ status = "Active" /\ ~paused /\ now <= deadline)
      => /\ \A auth \in AuthSets :
              Get(creator) \in auth => WithdrawResult(auth) = "CampaignStillActive"
         /\ \A auth \in AuthSets : RefundResult(auth) = "CampaignStillActive"
         /\ \A auth \in AuthSets : CollectPledgesResult(auth) = "CampaignStillActive"
         /\ \A c \in ContributorAddrs, amount \in Amounts, auth \in AuthSets :
              Admissible(c, amount, auth) => ContributeResult(c, amount, auth) = "Ok"

C15_NoContributeAfterSettlement ==
    /\ [](status \in Terminal =>
            \A c \in ContributorAddrs, amount \in Amounts, auth \in AuthSets :
                ContributeResult(c, amount, auth) # "Ok")
    /\ [][ (status \in Terminal)
             => (/\ total_raised' = total_raised
                 /\ contribution' = contribution
                 /\ balance'[Contract] = balance[Contract]) ]_vars

C15_Witness ==
    /\ status = "Cancelled"
    /\ ~paused
    /\ now <= deadline
    /\ balance["a2"] >= 1
    /\ min_contribution <= 1
    /\ ContributeResult("a2", 1, Addr) = "MissingValue"

\* C16: while the contract is paused, every contribute, withdraw and refund
\* call fails with ContractPaused, whatever the campaign state, the arguments
\* and the caller, and changes no state: no step taken while paused is a
\* successful withdraw or refund (the only steps that make the status
\* Successful or Refunded) or a successful contribute (the only step that
\* writes Contribution, Contributors and LastContributionTime).
C16_PausedBlocks ==
    /\ [](paused =>
            /\ \A c \in ContributorAddrs, amount \in Amounts, auth \in AuthSets :
                  ContributeResult(c, amount, auth) = "ContractPaused"
            /\ \A auth \in AuthSets : WithdrawResult(auth) = "ContractPaused"
            /\ \A auth \in AuthSets : RefundResult(auth) = "ContractPaused")
    /\ [][ paused =>
             /\ status' # status => status' \notin {"Successful", "Refunded"}
             /\ contribution' = contribution
             /\ contributors' = contributors
             /\ last_contribution_time' = last_contribution_time ]_vars

C16_Witness ==
    /\ paused
    /\ status = "Active"
    /\ now > deadline
    /\ total_raised >= goal
    /\ WithdrawResult(Addr) = "ContractPaused"
    /\ RefundResult(Addr) = "ContractPaused"
    /\ ContributeResult("a2", 1, Addr) = "ContractPaused"

\* C17: withdraw, cancel, set_paused, update_deadline, update_metadata,
\* add_reward_tier, add_roadmap_item and add_stretch_goal fail whenever the
\* stored creator has not authorized the call, whoever else has, and contribute
\* fails whenever the named contributor has not authorized it; no step taken
\* without the creator's authorization changes what these operations write.
C17_CreatorOnly ==
    /\ [](\A auth \in AuthSets :
            /\ (Initialized /\ Get(creator) \notin auth) =>
                 /\ WithdrawResult(auth) # "Ok"
                 /\ CancelResult(auth) # "Ok"
                 /\ SetPausedResult(auth) # "Ok"
                 /\ \A new_deadline \in Deadlines :
                      UpdateDeadlineResult(new_deadline, auth) # "Ok"
                 /\ \A creator_ \in CreatorArgs :
                      UpdateMetadataResult(creator_, auth) # "Ok"
                 /\ \A creator_ \in CreatorArgs, min_amount \in TierAmounts :
                      AddRewardTierResult(creator_, min_amount, auth) # "Ok"
                 /\ \A date \in RoadmapDates, description_ \in RoadmapDescriptions :
                      AddRoadmapItemResult(date, description_, auth) # "Ok"
                 /\ \A milestone \in Milestones :
                      AddStretchGoalResult(milestone, auth) # "Ok"
            /\ \A c \in ContributorAddrs, amount \in Amounts :
                 c \notin auth => ContributeResult(c, amount, auth) # "Ok")
    /\ [][ \A auth \in AuthSets :
             (/\ Initialized /\ Get(creator) \notin auth
              /\ \/ Withdraw(auth)
                 \/ Cancel(auth)
                 \/ \E paused_ \in BOOLEAN : SetPaused(paused_, auth)
                 \/ \E new_deadline \in Deadlines : UpdateDeadline(new_deadline, auth)
                 \/ \E milestone \in Milestones : AddStretchGoal(milestone, auth)
                 \/ \E date \in RoadmapDates, description_ \in RoadmapDescriptions :
                      AddRoadmapItem(date, description_, auth)
                 \/ \E creator_ \in CreatorArgs, name \in TierNames,
                       min_amount \in TierAmounts :
                      AddRewardTier(creator_, name, min_amount, auth)
                 \/ \E creator_ \in CreatorArgs, title_ \in Titles,
                       description_ \in Descriptions, socials_ \in Socials :
                      UpdateMetadata(creator_, title_, description_, socials_, auth))
               => UNCHANGED <<storage, balance>> ]_vars

C17_Witness ==
    /\ status = "Successful"
    /\ paused
    /\ IsSome(title)
    /\ Len(roadmap) > 0
    /\ Len(stretch_goals) > 0
    /\ Len(reward_tiers) > 0
    /\ deadline > Get(init_args).deadline
    /\ SetPausedResult({"a2", "a3"}) = "AuthFailed"
    /\ AddStretchGoalResult(2, {"a2", "a3"}) = "AuthFailed"
    /\ AddRoadmapItemResult(MaxTime + 1, "item", {"a2", "a3"}) = "AuthFailed"

C19_BelowMinimumRejected ==
    /\ [](\A c \in ContributorAddrs, amount \in Amounts, auth \in AuthSets :
            amount < min_contribution =>
              /\ ContributeResult(c, amount, auth) # "Ok"
              /\ Initialized =>
                   ContributeResult(c, amount, auth) \in
                     {"RateLimitExceeded", "ContractPaused", "AuthFailed",
                      "AmountBelowMinimum"})
    /\ [][ (~UNCHANGED <<total_raised, contribution, contributors, balance>>) =>
             \A c \in ContributorAddrs, amount \in Amounts,
                referral \in Referrals, auth \in AuthSets :
                amount < min_contribution => ~Contribute(c, amount, referral, auth) ]_vars

C19_Witness ==
    /\ status = "Active"
    /\ ~paused
    /\ now <= deadline
    /\ min_contribution = 1
    /\ balance["a2"] >= 1
    /\ ContributeResult("a2", -1, Addr) = "AmountBelowMinimum"

\* C20 as stated: every contribute call made at now > deadline is rejected
\* with CampaignEnded.
C20_AfterDeadlineCampaignEnded ==
    (Initialized /\ now > deadline) =>
        \A c \in ContributorAddrs, amount \in Amounts, auth \in AuthSets :
            ContributeResult(c, amount, auth) = "CampaignEnded"

\* C20, amended: a contribute call made at now > deadline is always rejected:
\* with CampaignEnded when the contributor is out of cooldown, the contract is
\* not paused, the contributor authorized the call and amount >=
\* min_contribution, and otherwise with the error of the first of those tests
\* that fails; total_raised and the Contribution balances never change after
\* the deadline by a contribution.
C20_AfterDeadlineRejected ==
    /\ []((Initialized /\ now > deadline) =>
            \A c \in ContributorAddrs, amount \in Amounts, auth \in AuthSets :
                ContributeResult(c, amount, auth) =
                    (IF RateLimited(c) THEN "RateLimitExceeded"
                     ELSE IF paused THEN "ContractPaused"
                     ELSE IF c \notin auth THEN "AuthFailed"
                     ELSE IF amount < min_contribution THEN "AmountBelowMinimum"
                     ELSE "CampaignEnded"))
    /\ [][ (Initialized /\ now > deadline) =>
             /\ contribution' = contribution
             /\ contributors' = contributors
             /\ total_raised' > total_raised => total_pledged' < total_pledged ]_vars

C20_Witness ==
    /\ status = "Active"
    /\ ~paused
    /\ now > deadline
    /\ min_contribution <= 1
    /\ balance["a2"] >= 1
    /\ ContributeResult("a2", 1, Addr) = "CampaignEnded"

\* C21: a contribute call with amount <= 0 fails, whoever makes it and
\* whatever min_contribution the campaign was initialized with (a negative
\* one included), and so changes no state.
C21_NonPositiveRejected ==
    \A c \in ContributorAddrs, amount \in NonPositiveAmounts, auth \in AuthSets :
        ContributeResult(c, amount, auth) # "Ok"

\* A call with amount 0 that the minimum test lets through.
C21_Witness ==
    /\ status = "Active"
    /\ ~paused
    /\ now <= deadline
    /\ min_contribution < 0
    /\ ContributeResult("a2", 0, Addr) = "MissingValue"

\* C22: a contribute call that passes the cooldown, pause, authorization,
\* minimum and deadline tests while total_raised >= hard_cap (the hard cap the
\* campaign was initialized with) fails with HardCapExceeded.
C22_HardCapExceeded ==
    (Initialized /\ total_raised >= Get(init_args).hard_cap) =>
        \A c \in ContributorAddrs, amount \in Amounts, auth \in AuthSets :
            (/\ ~RateLimited(c) /\ ~paused /\ c \in auth
             /\ amount >= min_contribution /\ now <= deadline)
              => ContributeResult(c, amount, auth) = "HardCapExceeded"

\* C23: total_raised never exceeds the hard cap the campaign was initialized
\* with.
C23_TotalWithinHardCap ==
    Initialized => total_raised <= Get(init_args).hard_cap

\* C24: once a contributor has made a contribution that the campaign accepts,
\* every contribute call of that contributor made less than CONTRIBUTION_COOLDOWN
\* seconds later fails with RateLimitExceeded, while a contributor without one is
\* never rate-limited (one contributor's cooldown does not block another).
\* (Time starts at 0, so while now < CONTRIBUTION_COOLDOWN every accepted
\* contribution is less than CONTRIBUTION_COOLDOWN seconds old.)
C24_CooldownAfterContribution ==
    now < CONTRIBUTION_COOLDOWN =>
        \A c \in ContributorAddrs, amount \in Amounts, auth \in AuthSets :
            (ContributeResult(c, amount, auth) = "RateLimitExceeded") <=> (accepted[c] > 0)

\* C25: after each of a contributor's valid contribute calls made in succession,
\* the contributor's Contribution balance is the sum of the amounts contributed
\* so far and total_raised is the sum of all of them.
C25_RunningSum ==
    [][ \A c \in ContributorAddrs :
          accepted'[c] # accepted[c] =>
              /\ contribution'[c] = accepted'[c]
              /\ total_raised' = SumOver(accepted', Addr) ]_vars

\* C26: collect_pledges succeeds only on an Active campaign, after the deadline,
\* with total_raised + total_pledged >= goal (it fails with 'not active',
\* CampaignStillActive or GoalNotReached otherwise); a successful call moves every
\* non-zero Pledge[p] from p to the contract and sets it to 0, adds the pre-call
\* total_pledged to total_raised and sets total_pledged to 0.
C26_CollectPledges ==
    /\ [](Initialized =>
            \A auth \in AuthSets :
               /\ status # "Active" => CollectPledgesResult(auth) = "NotActive"
               /\ (status = "Active" /\ now <= deadline)
                     => CollectPledgesResult(auth) = "CampaignStillActive"
               /\ (status = "Active" /\ now > deadline
                     /\ total_raised + total_pledged < goal)
                     => CollectPledgesResult(auth) = "GoalNotReached")
    /\ [][ \A auth \in AuthSets :
             (CollectPledgesResult(auth) = "Ok" /\ CollectPledges(auth)) =>
                 /\ \A p \in Addr : pledge[p] # 0 => pledge'[p] = 0
                 /\ balance' = [a \in Holders |->
                                  IF a = Contract
                                  THEN balance[a] + SumOver(pledge, Addr)
                                  ELSE balance[a] - pledge[a]]
                 /\ total_raised' = total_raised + total_pledged
                 /\ total_pledged' = 0 ]_vars

\* C27: a successful pledge(p, amount) adds amount to Pledge[p] and to
\* total_pledged, adds p to the Pledgers list if absent, moves no tokens and
\* leaves total_raised and every Contribution balance unchanged; and in every
\* reachable state total_pledged is the sum of the Pledge balances.
C27_PledgeRecorded ==
    /\ [](total_pledged = SumOver(pledge, Addr))
    /\ [][ \A p \in PledgerAddrs, amount \in Amounts, auth \in AuthSets :
             (PledgeResult(p, amount, auth) = "Ok" /\ Pledge(p, amount, auth)) =>
                 /\ pledge' = [pledge EXCEPT ![p] = @ + amount]
                 /\ total_pledged' = total_pledged + amount
                 /\ p \in Range(pledgers')
                 /\ \A q \in Range(pledgers) : q \in Range(pledgers')
                 /\ UNCHANGED <<balance, total_raised, contribution>> ]_vars

\* C28: the stored deadline never decreases.  update_deadline(d) succeeds exactly
\* when the campaign is Active, the creator authorized the call and d is
\* strictly greater than the current deadline, and then the deadline is d; a
\* call with d <= deadline fails; and the deadline of an initialized campaign
\* changes only by a successful update_deadline.
C28_DeadlineNeverDecreases ==
    /\ [](Initialized =>
            \A d \in Deadlines, auth \in AuthSets :
               (UpdateDeadlineResult(d, auth) = "Ok")
                  <=> (status = "Active" /\ Get(creator) \in auth /\ d > deadline))
    /\ [][ Initialized =>
             /\ deadline' >= deadline
             /\ deadline' # deadline =>
                  \E d \in Deadlines, auth \in AuthSets :
                     /\ UpdateDeadlineResult(d, auth) = "Ok"
                     /\ UpdateDeadline(d, auth)
                     /\ deadline' = d ]_vars

\* The deadline has been extended, and a creator-authorized call on the Active
\* campaign that would shorten it back is refused.
C28_Witness ==
    /\ Initialized
    /\ status = "Active"
    /\ deadline > Get(init_args).deadline
    /\ UpdateDeadlineResult(Get(init_args).deadline, {"a1"}) = "DeadlineNotAfter"

\* C29: the Contributors list has no duplicates, an address is in it iff its
\* Contribution balance is greater than 0, and contributor_count() is the number
\* of addresses that have contributed (it grows by one on the first accepted
\* contribution of an address, as the contributor-count test expects).
C29_ContributorsMatch ==
    Initialized =>
        /\ \A i, j \in 1..Len(contributors) :
              contributors[i] = contributors[j] => i = j
        /\ \A a \in Addr : (a \in Range(contributors)) <=> (contribution[a] > 0)
        /\ ContributorCount = Cardinality({a \in Addr : accepted[a] > 0})

\* C30: get_user_tier(user) returns the name of a stored tier with the greatest
\* min_amount among those with min_amount <= the user's contribution (here: the
\* amounts of the user's contribute calls that the documentation accepts, which
\* C2 says is the Contribution balance), none when the user has contributed
\* nothing or no stored tier qualifies, and the answer for that contribution is
\* the same for every order in which the stored tiers could have been added.
C30_UserTier ==
    Initialized =>
        \A user \in ContributorAddrs :
            LET n == Len(reward_tiers)
                qualifying == {i \in 1..n : reward_tiers[i].min_amount <= accepted[user]}
                greatest == {i \in qualifying :
                               \A j \in qualifying :
                                  reward_tiers[j].min_amount <= reward_tiers[i].min_amount}
            IN /\ (accepted[user] <= 0 \/ qualifying = {}) => GetUserTier(user) = NoneV
               /\ (accepted[user] > 0 /\ qualifying # {}) =>
                     GetUserTier(user) \in {Some(reward_tiers[i].name) : i \in greatest}
               /\ \A f \in Permutations(1..n) :
                     UserTierOf(accepted[user], [i \in 1..n |-> reward_tiers[f[i]]])
                        = UserTierOf(accepted[user], reward_tiers)

\* C31: current_milestone() is the smallest stored stretch goal that is strictly
\* greater than total_raised, or 0 when no stored stretch goal exceeds
\* total_raised, whatever the order in which the stretch goals were added; and
\* every stored stretch goal is strictly greater than goal.
C31_CurrentMilestone ==
    Initialized =>
        LET above == {m \in Range(stretch_goals) : m > total_raised} IN
        /\ above = {} => CurrentMilestone = 0
        /\ above # {} => /\ CurrentMilestone \in above
                         /\ \A m \in above : CurrentMilestone <= m
        /\ \A m \in Range(stretch_goals) : m > goal

\* C32: in every state after initialize, get_stats() returns total_raised, goal,
\* progress_bps = min(10000, total_raised * 10000 / goal), the number of
\* contributors, the average contribution (0 without contributors) and the
\* largest Contribution balance.
C32_GetStats ==
    Initialized =>
        LET count == Len(contributors)
            ratio == TruncDiv(total_raised * 10000, goal)
            balances == {contribution[a] : a \in Range(contributors)} IN
        GetStats = Some(
            [ total_raised |-> total_raised,
              goal |-> goal,
              progress_bps |-> IF ratio > 10000 THEN 10000 ELSE ratio,
              contributor_count |-> count,
              average_contribution |-> IF count = 0 THEN 0
                                       ELSE TruncDiv(total_raised, count),
              largest_contribution |->
                  IF count = 0 THEN 0
                  ELSE CHOOSE m \in balances : \A b \in balances : b <= m ])

C34_CreateCampaignSucceeds ==
    /\ \A creator_ \in Addr, auth \in AuthSets :
          (/\ creator_ \in auth
           /\ \A d \in deployed : d.address # CampaignAddress(creator_))
             => CreateCampaignResult(creator_, "crowdfund", auth) = "Ok"
    /\ \A d \in deployed :
          /\ d.address = CampaignAddress(d.creator)
          /\ d.goal \in FactoryGoals
          /\ d.deadline \in FactoryDeadlines

\* C35: once the status is Successful, Refunded or Cancelled, every
\* update_metadata, update_deadline and add_reward_tier call aborts with
\* 'campaign is not active', and the title, description, social links, deadline
\* and reward tiers no longer change.
C35_SettledIsFrozen ==
    /\ [](status \in Terminal =>
            /\ \A creator_ \in CreatorArgs, auth \in AuthSets :
                  UpdateMetadataResult(creator_, auth) = "NotActive"
            /\ \A d \in Deadlines, auth \in AuthSets :
                  UpdateDeadlineResult(d, auth) = "NotActive"
            /\ \A creator_ \in CreatorArgs, min_amount \in TierAmounts, auth \in AuthSets :
                  AddRewardTierResult(creator_, min_amount, auth) = "NotActive")
    /\ [][ (status \in Terminal) =>
              UNCHANGED <<title, description, socials, deadline, reward_tiers>> ]_vars

\* A refunded campaign whose title, deadline and reward tiers had been set by
\* the creator while it was Active.
C35_Witness ==
    /\ status = "Refunded"
    /\ IsSome(title)
    /\ deadline > Get(init_args).deadline
    /\ reward_tiers # <<>>

\* C36: a successful set_paused(b) sets the paused flag to b and changes no other
\* stored field and no token balance; so after set_paused(true) and then
\* set_paused(false) the state is as before, and a contribute call that meets
\* every documented condition once the campaign is unpaused succeeds.
C36_SetPausedFrame ==
    [][ \A paused_ \in BOOLEAN, auth \in AuthSets :
          (SetPausedResult(auth) = "Ok" /\ SetPaused(paused_, auth)) =>
              /\ paused' = paused_
              /\ UNCHANGED <<creator, token, goal, hard_cap, deadline, min_contribution,
                             total_raised, status, platform_config, ledgers,
                             presentation, balance>>
              /\ (paused /\ ~paused_) =>
                    \A c \in ContributorAddrs, amount \in Amounts, auth2 \in AuthSets :
                        Admissible(c, amount, auth2)'
                           => (ContributeResult(c, amount, auth2) = "Ok")' ]_vars

\* C37: a contribute(c, amount, referral) call that meets every documented
\* condition adds the effective (clamped) amount to ReferralTally[r] when
\* referral is an address r other than c, and changes no referral tally when
\* referral is absent or is c itself.
C37_ReferralTally ==
    [][ \A c \in ContributorAddrs, amount \in Amounts,
           referral \in Referrals, auth \in AuthSets :
            (Admissible(c, amount, auth)
               /\ TrackedContribute(c, amount, referral, auth)) =>
                referral_tally' =
                    IF IsSome(referral) /\ Get(referral) # c
                    THEN [referral_tally EXCEPT
                            ![Get(referral)] = @ + DocumentedEffective(amount)]
                    ELSE referral_tally ]_vars

C39_NoStrandedFunds ==
    status \in Terminal => balance[Contract] = 0

\* C40 (as stated): once now > deadline on an initialized campaign, no step leads
\* to a state in which refund is rejected with CampaignStillActive or a
\* contribute call succeeds.
C40_WindowNeverReopens ==
    [][ (Initialized /\ now > deadline) =>
           /\ \A auth \in AuthSets : (RefundResult(auth) # "CampaignStillActive")'
           /\ \A c \in ContributorAddrs, amount \in Amounts, auth \in AuthSets :
                 (ContributeResult(c, amount, auth) # "Ok")' ]_vars

\* C40 (amended): while now > deadline on an Active campaign, contribute fails
\* and refund is not rejected with CampaignStillActive; and the only step that
\* ends this is a successful update_deadline, which the creator can still call
\* after the deadline has passed.
C40_ReopensOnlyByUpdateDeadline ==
    /\ []((status = "Active" /\ now > deadline) =>
            /\ \A auth \in AuthSets : RefundResult(auth) # "CampaignStillActive"
            /\ \A c \in ContributorAddrs, amount \in Amounts, auth \in AuthSets :
                  ContributeResult(c, amount, auth) # "Ok")
    /\ [][ (status = "Active" /\ now > deadline /\ now' <= deadline') =>
              \E d \in Deadlines, auth \in AuthSets :
                 /\ UpdateDeadlineResult(d, auth) = "Ok"
                 /\ UpdateDeadline(d, auth) ]_vars

\* The deadline of an Active, unpaused campaign has passed, refund is open, and
\* an update_deadline call by the creator that re-opens the window would succeed.
C40_Witness ==
    /\ status = "Active"
    /\ ~paused
    /\ now > deadline
    /\ total_raised < goal
    /\ RefundResult(Addr) = "Ok"
    /\ \E d \in Deadlines : d >= now /\ UpdateDeadlineResult(d, {"a1"}) = "Ok"
====
